---- MODULE Spec2Model ----
(***************************************************************************)
(* Model of the Ethereum & SUI wallet API (index.js).                      *)
(*                                                                         *)
(* The server is a set of Express GET handlers.  A request is a record in  *)
(* the sequence reqs; a handler runs to completion in one step, except     *)
(* /sign, which suspends once at its await.  Strings are sequences of      *)
(* one-character strings, so that length, prefix and replace are computed  *)
(* as JavaScript computes them.  The third-party libraries (ethers v6,     *)
(* bip39, @mysten/sui) are modelled by a small algebraic stand-in: a       *)
(* recoverable signature scheme over the integers modulo GroupOrder, with  *)
(* the argument checks the library performs.                               *)
(***************************************************************************)
EXTENDS Integers, Sequences, FiniteSets, TLC

VARIABLES reqs, serving

vars == <<reqs, serving>>

(***************************************************************************)
(* Bounds                                                                  *)
(***************************************************************************)
MaxReq == 2

\* requests in the runs of the key-conversion routes alone
MaxKeyReq == 3

\* requests in the runs of the middleware chain
MaxRouteReq == 2

\* requests in the runs of the standalone server
MaxMainReq == 2

(***************************************************************************)
(* Strings                                                                 *)
(***************************************************************************)
Rep(c, n) == [i \in 1..n |-> c]

HexDigits == <<"0","1","2","3","4","5","6","7","8","9","a","b","c","d","e","f">>

UpperHex == <<"A","B","C","D","E","F">>

IsHexChar(c) ==
  \/ \E i \in 1..16 : HexDigits[i] = c
  \/ \E i \in 1..6 : UpperHex[i] = c

HexVal(c) ==
  IF \E i \in 1..16 : HexDigits[i] = c
  THEN (CHOOSE i \in 1..16 : HexDigits[i] = c) - 1
  ELSE (CHOOSE i \in 1..6 : UpperHex[i] = c) + 9

HexChar(n) == HexDigits[n + 1]

AllHex(s) == \A i \in 1..Len(s) : IsHexChar(s[i])

\* String.prototype.startsWith('0x')
StartsWith0x(s) == Len(s) >= 2 /\ s[1] = "0" /\ s[2] = "x"

\* index of the first occurrence of "0x" in s, 0 when there is none
IndexOf0x(s) ==
  IF \E i \in 1..(Len(s) - 1) : s[i] = "0" /\ s[i + 1] = "x"
  THEN CHOOSE i \in 1..(Len(s) - 1) :
         /\ s[i] = "0" /\ s[i + 1] = "x"
         /\ \A j \in 1..(i - 1) : ~(s[j] = "0" /\ s[j + 1] = "x")
  ELSE 0

\* String.prototype.replace('0x', ''): removes the first occurrence only
Replace0x(s) ==
  LET i == IndexOf0x(s)
  IN IF i = 0 THEN s ELSE SubSeq(s, 1, i - 1) \o SubSeq(s, i + 2, Len(s))

(***************************************************************************)
(* Query parameters, as req.query delivers them                            *)
(***************************************************************************)
Undefined == [t |-> "undefined", v |-> <<>>]

Str(s) == [t |-> "string", v |-> s]

Arr(a) == [t |-> "array", v |-> a]

\* JavaScript truthiness of a query value: undefined and "" are falsy
Truthy(p) == IF p.t = "string" THEN Len(p.v) > 0 ELSE p.t # "undefined"

(***************************************************************************)
(* ethers v6 stand-in: keys, addresses, personal-message signatures        *)
(***************************************************************************)
\* order of the stand-in group (secp256k1's order, scaled down to a prime)
GroupOrder == 13

\* the order n of secp256k1 as 64 hex digits: a private key is valid iff
\* 0 < key < n
CurveN ==
  Rep("f", 31) \o <<"e">> \o
  <<"b","a","a","e","d","c","e","6","a","f","4","8","a","0","3","b","b","f","d","2","5","e","8","c","d","0","3","6","4","1","4","1">>

Lower(c) == HexChar(HexVal(c))

\* a < b for two hex strings of the same length
HexLess(a, b) ==
  \E i \in 1..Len(a) :
    /\ HexVal(a[i]) < HexVal(b[i])
    /\ \A j \in 1..(i - 1) : HexVal(a[j]) = HexVal(b[j])

\* base^exponent modulo modulus, by repeated squaring
RECURSIVE PowMod(_, _, _)
PowMod(base, exponent, modulus) ==
  IF exponent = 0 THEN 1 % modulus
  ELSE IF exponent % 2 = 0
  THEN (PowMod(base, exponent \div 2, modulus) * PowMod(base, exponent \div 2, modulus)) % modulus
  ELSE (base * PowMod(base, exponent - 1, modulus)) % modulus

\* the numeral digits[lo..hi] in the given base, modulo modulus
RECURSIVE NumeralMod(_, _, _, _, _)
NumeralMod(digits, lo, hi, base, modulus) ==
  IF lo > hi THEN 0
  ELSE IF lo = hi THEN digits[lo] % modulus
  ELSE (NumeralMod(digits, lo, (lo + hi) \div 2, base, modulus)
          * PowMod(base, hi - ((lo + hi) \div 2), modulus)
        + NumeralMod(digits, ((lo + hi) \div 2) + 1, hi, base, modulus)) % modulus

\* the value of a hex string, reduced modulo GroupOrder
ParseHexMod(hexText) ==
  NumeralMod([pos \in 1..Len(hexText) |-> HexVal(hexText[pos])],
             1, Len(hexText), 16, GroupOrder)

Inv(a) == CHOOSE x \in 1..(GroupOrder - 1) : (a * x) % GroupOrder = 1

\* new ethers.Wallet(key): a string without "0x" is prefixed; the key must
\* then be "0x" + 64 hex digits with 0 < value < n
NormalizeKey(s) == IF StartsWith0x(s) THEN s ELSE <<"0", "x">> \o s

KeyDigits(s) == SubSeq(NormalizeKey(s), 3, Len(NormalizeKey(s)))

IsValidEthKey(p) ==
  /\ p.t = "string"
  /\ Len(KeyDigits(p.v)) = 64
  /\ AllHex(KeyDigits(p.v))
  /\ \E i \in 1..64 : HexVal(KeyDigits(p.v)[i]) # 0
  /\ HexLess(KeyDigits(p.v), CurveN)

Scalar(s) == ParseHexMod(KeyDigits(s))

AddressOf(pub) == <<"0", "x", HexChar((pub * 7 + 3) % GroupOrder)>>

PublicKeyOf(d) == <<"0", "x", "0", "4", HexChar(d % GroupOrder)>>

\* ethers.SigningKey.computePublicKey(key, true)
computePublicKey(s) == <<"0", "x", "0", "2", HexChar(Scalar(s))>>

\* new ethers.Wallet(key): an object with address, privateKey and signingKey;
\* unlike an HDNodeWallet it has no publicKey property
Wallet(p) ==
  [ address    |-> AddressOf(Scalar(p.v)),
    privateKey |-> <<"0", "x">> \o [i \in 1..64 |-> Lower(KeyDigits(p.v)[i])],
    origin     |-> "key" ]

\* characters that occur in messages, with their codes
Alphabet == HexDigits \o <<"x", "h", "i", "y", "o", "z">>

CharCode(c) == CHOOSE i \in 1..Len(Alphabet) : Alphabet[i] = c

RECURSIVE CodeSum(_, _)
CodeSum(m, i) ==
  IF Len(m) = 0 THEN 0 ELSE CharCode(m[1]) * i + CodeSum(Tail(m), i + 1)

\* ethers.hashMessage: digest of the length-prefixed message
hashMessage(m) == (Len(m) * 7 + CodeSum(m, 1)) % GroupOrder

\* wallet.signMessage(message) accepts a string (or bytes), nothing else
SignThrows(m) == m.t # "string"

Nonce(d, h) == 1 + ((d + h) % (GroupOrder - 1))

\* wallet.signMessage: "0x" + r + s + v
signMessage(key, m) ==
  LET d  == Scalar(key)
      h  == hashMessage(m)
      r  == Nonce(d, h)
      sv == (Inv(r) * (h + r * d)) % GroupOrder
  IN <<"0", "x", HexChar(r), HexChar(sv), "b">>

IsSignature(p) ==
  /\ p.t = "string"
  /\ Len(p.v) = 5
  /\ StartsWith0x(p.v)
  /\ AllHex(SubSeq(p.v, 3, 5))
  /\ HexVal(p.v[3]) \in 1..(GroupOrder - 1)
  /\ HexVal(p.v[4]) \in 0..(GroupOrder - 1)
  /\ Lower(p.v[5]) \in {"b", "c"}

\* ethers.verifyMessage throws on a malformed signature or message
VerifyThrows(m, sig) == m.t # "string" \/ ~IsSignature(sig)

\* ethers.verifyMessage(message, signature): the address of the public key
\* recovered from the digest and (r, s, v)
verifyMessage(m, sig) ==
  LET h  == hashMessage(m)
      r  == HexVal(sig[3])
      sv == HexVal(sig[4])
      R  == IF Lower(sig[5]) = "b" THEN r ELSE GroupOrder - r
      Q  == (Inv(r) * (sv * R + GroupOrder - h)) % GroupOrder
  IN AddressOf(Q)

(***************************************************************************)
(* ethers v6 / bip39 stand-in: mnemonics and HD nodes                      *)
(***************************************************************************)
\* phrases bip39.generateMnemonic() can return
Mnemonics == {"abandon ability", "zoo zone"}

StdPathText == "m/44'/60'/0'/0/0"

\* the components of m/44'/60'/0'/0/0 (a hardened index has 128 added)
StdPath == <<172, 188, 128, 0, 0>>

Seed(phrase) == IF phrase = "abandon ability" THEN 17 ELSE 101

ChildKey(k, c) == (k * 5 + c + 1) % 251

\* the key reached from key k along the components of path
RECURSIVE DeriveKey(_, _)
DeriveKey(parentKey, components) ==
  IF Len(components) = 0 THEN parentKey
  ELSE DeriveKey(ChildKey(parentKey, Head(components)), Tail(components))

\* a key 1..251 as "0x" + 64 hex digits
KeyText(k) ==
  <<"0", "x">> \o Rep("0", 62) \o <<HexChar((k + 1) \div 16), HexChar((k + 1) % 16)>>

HDNode(phrase, key, path) ==
  [ phrase     |-> phrase,
    path       |-> path,
    depth      |-> Len(path),
    address    |-> AddressOf(Scalar(KeyText(key))),
    privateKey |-> KeyText(key),
    publicKey  |-> PublicKeyOf(Scalar(KeyText(key))),
    origin     |-> "mnemonic" ]

\* HDNodeWallet.fromSeed: the master node, depth 0
RootNode(phrase) == HDNode(phrase, Seed(phrase), <<>>)

NodeKey(node) == DeriveKey(Seed(node.phrase), node.path)

\* node.derivePath(path) for a path without the leading "m"
DeriveChildren(node, path) ==
  HDNode(node.phrase, DeriveKey(NodeKey(node), path), node.path \o path)

\* HDNodeWallet.fromMnemonic(mnemonic) with no path argument: ethers v6
\* derives the default path m/44'/60'/0'/0/0 from the master node
fromMnemonic(phrase) == DeriveChildren(RootNode(phrase), StdPath)

\* node.derivePath("m/..."): releases of ethers v6 that check the depth
\* reject a path starting with "m" on a node of depth > 0
DerivePathThrows(node, strict) == strict /\ node.depth # 0

\* Wallet.createRandom(): a wallet from fresh entropy of its own
createRandom(entropy) ==
  [fromMnemonic(entropy) EXCEPT !.origin = "createRandom"]

(***************************************************************************)
(* @mysten/sui stand-in: Ed25519 keypairs                                  *)
(***************************************************************************)
\* Buffer.from(s, 'hex'): the bytes of the leading pairs of hex digits
HexPairs(s) ==
  IF \E n \in 0..(Len(s) \div 2) :
       \A i \in 1..(2 * n) : IsHexChar(s[i])
  THEN CHOOSE n \in 0..(Len(s) \div 2) :
         /\ \A i \in 1..(2 * n) : IsHexChar(s[i])
         /\ \/ n = Len(s) \div 2
            \/ ~(IsHexChar(s[2 * n + 1]) /\ IsHexChar(s[2 * n + 2]))
  ELSE 0

BufferFromHex(s) ==
  [i \in 1..HexPairs(s) |-> 16 * HexVal(s[2 * i - 1]) + HexVal(s[2 * i])]

\* Ed25519Keypair.fromSecretKey(bytes) requires 32 bytes
FromSecretKeyThrows(bytes) == Len(bytes) # 32

\* the public key of a 32-byte secret
Ed25519Public(secret) == NumeralMod(secret, 1, Len(secret), 3, 251)

\* keypair.getPublicKey().toSuiAddress()
toSuiAddress(pub) ==
  <<"0", "x", HexChar(((pub * 5 + 1) % 256) \div 16), HexChar(((pub * 5 + 1) % 256) % 16)>>

\* keypair.getPublicKey().toBase64()
toBase64(pub) == <<HexChar(pub \div 16), HexChar(pub % 16), "=">>


\* new Ed25519Keypair(): a keypair around a fresh 32-byte secret
Keypair(secret) == [secret |-> secret, pub |-> Ed25519Public(secret)]

LowerLetters ==
  <<"a","b","c","d","e","f","g","h","i","j","k","l","m",
    "n","o","p","q","r","s","t","u","v","w","x","y","z">>

\* the UTF-8 code of a digit or a lower-case letter
AsciiCode(c) ==
  IF \E n \in 1..10 : HexDigits[n] = c
  THEN 47 + (CHOOSE n \in 1..10 : HexDigits[n] = c)
  ELSE 96 + (CHOOSE n \in 1..26 : LowerLetters[n] = c)

Bech32Alphabet ==
  <<"q","p","z","r","y","9","x","8","g","f","2","t","v","d","w","0",
    "s","3","j","n","5","4","k","h","c","e","6","m","u","a","7","l">>

\* bit n (from 0, most significant first) of a byte string, 0 past its end
BitOf(bytes, n) ==
  IF n >= 8 * Len(bytes) THEN 0
  ELSE (bytes[(n \div 8) + 1] \div (2 ^ (7 - (n % 8)))) % 2

\* bech32 toWords: the bytes regrouped into 5-bit words, zero padded
WordOf(bytes, j) ==
  16 * BitOf(bytes, 5 * j) + 8 * BitOf(bytes, 5 * j + 1)
  + 4 * BitOf(bytes, 5 * j + 2) + 2 * BitOf(bytes, 5 * j + 3)
  + BitOf(bytes, 5 * j + 4)

ToWords(bytes) ==
  [j \in 1..((8 * Len(bytes) + 4) \div 5) |-> WordOf(bytes, j - 1)]

\* the six checksum words of a bech32 string
Bech32Checksum(words) ==
  [j \in 1..6 |-> (words[j] + words[Len(words) + 1 - j] + j) % 32]

\* keypair.getSecretKey() of @mysten/sui 1.x: the bech32 text
\* "suiprivkey1..." of the scheme flag 0x00 followed by the secret
getSecretKey(keypair) ==
  LET words == ToWords(<<0>> \o keypair.secret)
      data  == words \o Bech32Checksum(words)
  IN <<"s","u","i","p","r","i","v","k","e","y","1">>
     \o [j \in 1..Len(data) |-> Bech32Alphabet[data[j] + 1]]

\* value.slice(0, n) of a string or an array
Slice(value, n) == SubSeq(value, 1, IF n < Len(value) THEN n ELSE Len(value))

\* Buffer.from(text): the UTF-8 bytes of the text
BufferFromText(text) == [n \in 1..Len(text) |-> AsciiCode(text[n])]

\* buffer.toString('hex'): two lower-case hex digits per byte
ToHex(bytes) ==
  [n \in 1..(2 * Len(bytes)) |->
     IF n % 2 = 1 THEN HexChar(bytes[(n + 1) \div 2] \div 16)
     ELSE HexChar(bytes[n \div 2] % 16)]

(***************************************************************************)
(* Requests, responses and the per-request event trace                     *)
(***************************************************************************)
ErrorBody(text) == [success |-> FALSE, error |-> text]

OkBody(data) == [success |-> TRUE, data |-> data]

Response(status, body) == [status |-> status, body |-> body]

\* object[name]: no value (undefined) when the object has no such property
Property(object, name) == IF name \in DOMAIN object THEN <<object[name]>> ELSE <<>>

\* res.json(...) of an object literal: JSON.stringify leaves out every
\* property whose value is undefined
Stringify(props) == [f \in { g \in DOMAIN props : props[g] # <<>> } |-> props[f][1]]

\* events of one request, in program order
Call(op, arg) == [e |-> "call", op |-> op, arg |-> arg]

Throw(op) == [e |-> "throw", op |-> op, arg |-> Undefined]

Log(text) == [e |-> "log", op |-> text, arg |-> Undefined]

Send(status) == [e |-> "send", op |-> "res.json", arg |-> Str(<<>>)] @@ [status |-> status]

NoQuery ==
  [key |-> Undefined, message |-> Undefined, signature |-> Undefined,
   privateKey |-> Undefined]

Request(ep, query, pc, locals, trace, res) ==
  [ep |-> ep, query |-> query, pc |-> pc, locals |-> locals,
   trace |-> trace, res |-> res]

NoLocals == [wallet |-> Undefined]

(***************************************************************************)
(* GET /sign                                                               *)
(***************************************************************************)
SignMissingText == "Private key and message are required"

SignErrorText == "Error signing message. Please ensure the private key is valid."

\* SignCatch with the exception's detail copied into the body
SignCatch_LeaksDetail(trace, op) ==
  [pc |-> "done", locals |-> NoLocals,
   trace |-> trace \o <<Throw(op), Log("Error signing message:"), Send(500)>>,
   res |-> <<Response(500, [success |-> FALSE, error |-> SignErrorText,
                            details |-> op])>>]

\* the catch block of /sign
SignCatch(trace, op) ==
  [pc |-> "done", locals |-> NoLocals,
   trace |-> trace \o <<Throw(op), Log("Error signing message:"), Send(500)>>,
   res |-> <<Response(500, ErrorBody(SignErrorText))>>]

\* the promise returned by wallet.signMessage(message)
SignPromise(key, message) ==
  IF SignThrows(message)
  THEN [rejected |-> TRUE, value |-> <<>>]
  ELSE [rejected |-> FALSE, value |-> signMessage(key.v, message.v)]

\* SignBegin with the presence test written with && instead of ||
SignBegin_BothMissing(q) ==
  IF ~Truthy(q.key) /\ ~Truthy(q.message)
  THEN [pc |-> "done", locals |-> NoLocals, trace |-> <<Send(400)>>,
        res |-> <<Response(400, ErrorBody(SignMissingText))>>]
  ELSE IF ~IsValidEthKey(q.key)
  THEN SignCatch(<<Call("ethers.Wallet", q.key)>>, "ethers.Wallet")
  ELSE [pc |-> "await",
        locals |-> [wallet |-> Wallet(q.key), address |-> Wallet(q.key).address,
                    promise |-> SignPromise(q.key, q.message)],
        trace |-> <<Call("ethers.Wallet", q.key),
                    Call("wallet.signMessage", q.message)>>,
        res |-> <<>>]

\* /sign from its entry to the await of wallet.signMessage
SignBegin(q) ==
  IF ~Truthy(q.key) \/ ~Truthy(q.message)
  THEN [pc |-> "done", locals |-> NoLocals, trace |-> <<Send(400)>>,
        res |-> <<Response(400, ErrorBody(SignMissingText))>>]
  ELSE IF ~IsValidEthKey(q.key)
  THEN SignCatch(<<Call("ethers.Wallet", q.key)>>, "ethers.Wallet")
  ELSE [pc |-> "await",
        locals |-> [wallet |-> Wallet(q.key), address |-> Wallet(q.key).address,
                    promise |-> SignPromise(q.key, q.message)],
        trace |-> <<Call("ethers.Wallet", q.key),
                    Call("wallet.signMessage", q.message)>>,
        res |-> <<>>]

\* SignEnd answering with the address of a wallet built again, from the key
\* without its prefix and with its last digit dropped
SignEnd_OtherWallet(r) ==
  IF r.locals.promise.rejected
  THEN SignCatch(r.trace, "wallet.signMessage")
  ELSE [pc |-> "done", locals |-> r.locals,
        trace |-> r.trace \o <<Send(200)>>,
        res |-> <<Response(200, OkBody(
                  [address   |-> AddressOf(Scalar(<<"0">> \o SubSeq(KeyDigits(r.query.key.v), 1, 63))),
                   message   |-> r.query.message,
                   signature |-> r.locals.promise.value]))>>]

\* /sign from the await to the response
SignEnd(r) ==
  IF r.locals.promise.rejected
  THEN SignCatch(r.trace, "wallet.signMessage")
  ELSE [pc |-> "done", locals |-> r.locals,
        trace |-> r.trace \o <<Send(200)>>,
        res |-> <<Response(200, OkBody(
                  [address   |-> r.locals.address,
                   message   |-> r.query.message,
                   signature |-> r.locals.promise.value]))>>]

(***************************************************************************)
(* GET /verify                                                             *)
(***************************************************************************)
VerifyMissingText == "Message and signature are required"

VerifyErrorText == "Error verifying signature"

VerifyMissing ==
  [pc |-> "done", locals |-> NoLocals, trace |-> <<Send(400)>>,
   res |-> <<Response(400, ErrorBody(VerifyMissingText))>>]

VerifyCatch(q) ==
  [pc |-> "done", locals |-> NoLocals,
   trace |-> <<Call("ethers.verifyMessage", q.signature),
               Throw("ethers.verifyMessage"),
               Log("Error verifying signature:"), Send(500)>>,
   res |-> <<Response(500, ErrorBody(VerifyErrorText))>>]

VerifyOk(q, recoveredAddress) ==
  [pc |-> "done", locals |-> NoLocals,
   trace |-> <<Call("ethers.verifyMessage", q.signature), Send(200)>>,
   res |-> <<Response(200, OkBody(
             [recoveredAddress |-> recoveredAddress,
              message          |-> q.message,
              isValid          |-> TRUE]))>>]

\* Verify with the arguments of ethers.verifyMessage exchanged
Verify_SwappedArguments(q) ==
  IF ~Truthy(q.message) \/ ~Truthy(q.signature) THEN VerifyMissing
  ELSE IF VerifyThrows(q.signature, q.message) THEN VerifyCatch(q)
  ELSE VerifyOk(q, verifyMessage(q.signature.v, q.message.v))

\* Verify reporting a failed recovery as a value
Verify_ReportsFalse(q) ==
  IF ~Truthy(q.message) \/ ~Truthy(q.signature) THEN VerifyMissing
  ELSE IF VerifyThrows(q.message, q.signature)
  THEN [pc |-> "done", locals |-> NoLocals,
        trace |-> <<Call("ethers.verifyMessage", q.signature),
                    Throw("ethers.verifyMessage"), Send(200)>>,
        res |-> <<Response(200, OkBody(
                  [recoveredAddress |-> <<>>, message |-> q.message,
                   isValid |-> FALSE]))>>]
  ELSE VerifyOk(q, verifyMessage(q.message.v, q.signature.v))

\* Verify without its try/catch
Verify_NoCatch(q) ==
  IF ~Truthy(q.message) \/ ~Truthy(q.signature) THEN VerifyMissing
  ELSE IF VerifyThrows(q.message, q.signature)
  THEN [pc |-> "done", locals |-> NoLocals,
        trace |-> <<Call("ethers.verifyMessage", q.signature),
                    Throw("ethers.verifyMessage")>>,
        res |-> <<>>]
  ELSE VerifyOk(q, verifyMessage(q.message.v, q.signature.v))

\* Verify rejecting only an absent message, not an empty one
Verify_AcceptsEmpty(q) ==
  IF q.message = Undefined \/ ~Truthy(q.signature) THEN VerifyMissing
  ELSE IF VerifyThrows(q.message, q.signature) THEN VerifyCatch(q)
  ELSE VerifyOk(q, verifyMessage(q.message.v, q.signature.v))

Verify(q) ==
  IF ~Truthy(q.message) \/ ~Truthy(q.signature) THEN VerifyMissing
  ELSE IF VerifyThrows(q.message, q.signature) THEN VerifyCatch(q)
  ELSE VerifyOk(q, verifyMessage(q.message.v, q.signature.v))

(***************************************************************************)
(* GET /generate-eth                                                       *)
(***************************************************************************)
GenEthErrorText == "Error generating ETH wallet"

\* WalletData without the publicKey field
WalletData_NoPublicKey(mnemonic, wallet, path) ==
  [address        |-> wallet.address,
   privateKey     |-> wallet.privateKey,
   mnemonic       |-> mnemonic,
   derivationPath |-> path]

WalletData(mnemonic, wallet, path) ==
  [address        |-> wallet.address,
   privateKey     |-> wallet.privateKey,
   mnemonic       |-> mnemonic,
   publicKey      |-> wallet.publicKey,
   derivationPath |-> path]

\* the fallback deriving its wallet from the mnemonic it generated
GenEthFallback_FromMnemonic(trace, env) ==
  LET t1 == trace \o <<Log("Error generating ETH wallet:"),
                       Call("bip39.generateMnemonic", Undefined)>>
      t2 == t1 \o <<Call("ethers.HDNodeWallet.fromMnemonic", env.mn2)>>
  IN IF env.mn2 = "throw"
     THEN [pc |-> "done", locals |-> NoLocals,
           trace |-> t1 \o <<Throw("bip39.generateMnemonic"),
                             Log("Error in fallback wallet generation:"),
                             Send(500)>>,
           res |-> <<Response(500, ErrorBody(GenEthErrorText))>>]
     ELSE [pc |-> "done",
           locals |-> [mnemonic |-> env.mn2, wallet |-> fromMnemonic(env.mn2)],
           trace |-> t2 \o <<Send(200)>>,
           res |-> <<Response(200, OkBody(
                     WalletData(env.mn2, fromMnemonic(env.mn2), "random")))>>]

\* the fallback in the catch block: a second mnemonic and a random wallet
\* GenEthFallback without the return before its success response, so that
\* the failure response is sent after it
GenEthFallback_NoReturn(trace, env) ==
  LET t1 == trace \o <<Log("Error generating ETH wallet:"),
                       Call("bip39.generateMnemonic", Undefined)>>
      t2 == t1 \o <<Call("ethers.Wallet.createRandom", Undefined)>>
      fail(t, op) ==
        [pc |-> "done", locals |-> NoLocals,
         trace |-> t \o <<Throw(op), Log("Error in fallback wallet generation:"),
                          Send(500)>>,
         res |-> <<Response(500, ErrorBody(GenEthErrorText))>>]
  IN IF env.mn2 = "throw" THEN fail(t1, "bip39.generateMnemonic")
     ELSE IF env.rnd = "throw" THEN fail(t2, "ethers.Wallet.createRandom")
     ELSE [pc |-> "done",
           locals |-> [mnemonic |-> env.mn2, wallet |-> createRandom(env.rnd)],
           trace |-> t2 \o <<Send(200), Send(500)>>,
           res |-> <<Response(200, OkBody(
                     WalletData(env.mn2, createRandom(env.rnd), "random"))),
                     Response(500, ErrorBody(GenEthErrorText))>>]

GenEthFallback(trace, env) ==
  LET t1 == trace \o <<Log("Error generating ETH wallet:"),
                       Call("bip39.generateMnemonic", Undefined)>>
      t2 == t1 \o <<Call("ethers.Wallet.createRandom", Undefined)>>
      fail(t, op) ==
        [pc |-> "done", locals |-> NoLocals,
         trace |-> t \o <<Throw(op), Log("Error in fallback wallet generation:"),
                          Send(500)>>,
         res |-> <<Response(500, ErrorBody(GenEthErrorText))>>]
  IN IF env.mn2 = "throw" THEN fail(t1, "bip39.generateMnemonic")
     ELSE IF env.rnd = "throw" THEN fail(t2, "ethers.Wallet.createRandom")
     ELSE [pc |-> "done",
           locals |-> [mnemonic |-> env.mn2, wallet |-> createRandom(env.rnd)],
           trace |-> t2 \o <<Send(200)>>,
           res |-> <<Response(200, OkBody(
                     WalletData(env.mn2, createRandom(env.rnd), "random")))>>]

\* GenerateEth answering 500 as soon as the primary attempt throws
GenerateEth_NoFallback(env) ==
  LET t1 == <<Call("bip39.generateMnemonic", Undefined)>>
      t2 == t1 \o <<Call("ethers.Mnemonic.fromPhrase", env.mn1),
                    Call("ethers.HDNodeWallet.fromMnemonic", env.mn1)>>
      hdWallet == fromMnemonic(env.mn1)
      t3 == t2 \o <<Call("hdWallet.derivePath", hdWallet)>>
      wallet == DeriveChildren(hdWallet, StdPath)
      fail(t, op) ==
        [pc |-> "done", locals |-> NoLocals,
         trace |-> t \o <<Throw(op), Log("Error generating ETH wallet:"), Send(500)>>,
         res |-> <<Response(500, ErrorBody(GenEthErrorText))>>]
  IN IF env.mn1 = "throw" THEN fail(t1, "bip39.generateMnemonic")
     ELSE IF DerivePathThrows(hdWallet, env.strict)
     THEN fail(t3, "hdWallet.derivePath")
     ELSE [pc |-> "done",
           locals |-> [mnemonic |-> env.mn1, hdWallet |-> hdWallet,
                       wallet |-> wallet],
           trace |-> t3 \o <<Send(200)>>,
           res |-> <<Response(200, OkBody(
                     WalletData(env.mn1, wallet, StdPathText)))>>]

GenerateEth(env) ==
  LET t1 == <<Call("bip39.generateMnemonic", Undefined)>>
      t2 == t1 \o <<Call("ethers.Mnemonic.fromPhrase", env.mn1),
                    Call("ethers.HDNodeWallet.fromMnemonic", env.mn1)>>
      hdWallet == fromMnemonic(env.mn1)
      t3 == t2 \o <<Call("hdWallet.derivePath", hdWallet)>>
      wallet == DeriveChildren(hdWallet, StdPath)
  IN IF env.mn1 = "throw"
     THEN GenEthFallback(t1 \o <<Throw("bip39.generateMnemonic")>>, env)
     ELSE IF DerivePathThrows(hdWallet, env.strict)
     THEN GenEthFallback(t3 \o <<Throw("hdWallet.derivePath")>>, env)
     ELSE [pc |-> "done",
           locals |-> [mnemonic |-> env.mn1, hdWallet |-> hdWallet,
                       wallet |-> wallet],
           trace |-> t3 \o <<Send(200)>>,
           res |-> <<Response(200, OkBody(
                     WalletData(env.mn1, wallet, StdPathText)))>>]

(***************************************************************************)
(* GET /generate-sui                                                       *)
(***************************************************************************)
GenSuiErrorText == "Error generating SUI wallet"

\* the hex of everything getSecretKey() returns, with no slice(0, 32)
PrivateKeyHex_NoSlice(keypair) == ToHex(BufferFromText(getSecretKey(keypair)))

\* the privateKey of the response: the hex of the first 32 elements of what
\* getSecretKey() returns
PrivateKeyHex(keypair) == ToHex(BufferFromText(Slice(getSecretKey(keypair), 32)))

GenerateSui(env) ==
  LET t1 == <<Call("new Ed25519Keypair", Undefined)>>
      keypair == Keypair(env.secret)
  IN IF env.fail
     THEN [pc |-> "done", locals |-> NoLocals,
           trace |-> t1 \o <<Throw("new Ed25519Keypair"),
                             Log("Error generating SUI wallet:"), Send(500)>>,
           res |-> <<Response(500, ErrorBody(GenSuiErrorText))>>]
     ELSE [pc |-> "done", locals |-> [keypair |-> keypair],
           trace |-> t1 \o <<Call("keypair.getSecretKey", Undefined), Send(200)>>,
           res |-> <<Response(200, OkBody(
                     [address    |-> toSuiAddress(keypair.pub),
                      privateKey |-> PrivateKeyHex(keypair),
                      publicKey  |-> toBase64(keypair.pub),
                      keyType    |-> "Ed25519"]))>>]

(***************************************************************************)
(* GET /sui-key-to-address                                                 *)
(***************************************************************************)
KeyMissingText == "Private key is required"

SuiLengthText == "Invalid private key length. Expected 64 hex characters for Ed25519."

SuiErrorText == "Error converting SUI private key. Please ensure the private key is valid."

\* SuiCatch without its console.error
SuiCatch_NoLog(trace, op) ==
  [pc |-> "done", locals |-> NoLocals,
   trace |-> trace \o <<Throw(op), Send(500)>>,
   res |-> <<Response(500, ErrorBody(SuiErrorText))>>]

SuiCatch(trace, op) ==
  [pc |-> "done", locals |-> NoLocals,
   trace |-> trace \o <<Throw(op), Log("Error converting SUI private key:"),
                        Send(500)>>,
   res |-> <<Response(500, ErrorBody(SuiErrorText))>>]

\* SuiKeyToAddress testing the length after it handed the key to
\* Ed25519Keypair.fromSecretKey
SuiKeyToAddress_LateCheck(q) ==
  LET cleanPrivateKey == Replace0x(q.privateKey.v)
      privateKeyBytes == BufferFromHex(cleanPrivateKey)
      pub == Ed25519Public(privateKeyBytes)
      t1 == <<Call("Ed25519Keypair.fromSecretKey", Str(cleanPrivateKey))>>
  IN IF ~Truthy(q.privateKey)
     THEN [pc |-> "done", locals |-> NoLocals, trace |-> <<Send(400)>>,
           res |-> <<Response(400, ErrorBody(KeyMissingText))>>]
     ELSE IF q.privateKey.t # "string"
     THEN SuiCatch(<<>>, "privateKey.replace")
     ELSE IF Len(cleanPrivateKey) # 64
     THEN [pc |-> "done", locals |-> NoLocals, trace |-> t1 \o <<Send(400)>>,
           res |-> <<Response(400, ErrorBody(SuiLengthText))>>]
     ELSE IF FromSecretKeyThrows(privateKeyBytes)
     THEN SuiCatch(t1, "Ed25519Keypair.fromSecretKey")
     ELSE [pc |-> "done", locals |-> NoLocals,
           trace |-> t1 \o <<Send(200)>>,
           res |-> <<Response(200, OkBody(
                     [address    |-> toSuiAddress(pub),
                      publicKey  |-> toBase64(pub),
                      privateKey |-> cleanPrivateKey,
                      keyType    |-> "Ed25519"]))>>]

SuiKeyToAddress(q) ==
  LET cleanPrivateKey == Replace0x(q.privateKey.v)
      privateKeyBytes == BufferFromHex(cleanPrivateKey)
      pub == Ed25519Public(privateKeyBytes)
      t1 == <<Call("Ed25519Keypair.fromSecretKey", Str(cleanPrivateKey))>>
  IN IF ~Truthy(q.privateKey)
     THEN [pc |-> "done", locals |-> NoLocals, trace |-> <<Send(400)>>,
           res |-> <<Response(400, ErrorBody(KeyMissingText))>>]
     ELSE IF q.privateKey.t # "string"
     THEN SuiCatch(<<>>, "privateKey.replace")
     ELSE IF Len(cleanPrivateKey) # 64
     THEN [pc |-> "done", locals |-> NoLocals, trace |-> <<Send(400)>>,
           res |-> <<Response(400, ErrorBody(SuiLengthText))>>]
     ELSE IF FromSecretKeyThrows(privateKeyBytes)
     THEN SuiCatch(t1, "Ed25519Keypair.fromSecretKey")
     ELSE [pc |-> "done", locals |-> NoLocals,
           trace |-> t1 \o <<Send(200)>>,
           res |-> <<Response(200, OkBody(
                     [address    |-> toSuiAddress(pub),
                      publicKey  |-> toBase64(pub),
                      privateKey |-> cleanPrivateKey,
                      keyType    |-> "Ed25519"]))>>]

(***************************************************************************)
(* GET /eth-key-to-wallet                                                  *)
(***************************************************************************)
EthFormatText == "Invalid private key format. Expected 64 hex characters (with or without 0x prefix)."

EthErrorText == "Error converting ETH private key. Please ensure the private key is valid."

\* EthCatch throwing the exception again after logging it
EthCatch_Rethrow(trace, op) ==
  [pc |-> "done", locals |-> NoLocals,
   trace |-> trace \o <<Throw(op), Log("Error converting ETH private key:"),
                        Throw(op)>>,
   res |-> <<>>]

EthCatch(trace, op) ==
  [pc |-> "done", locals |-> NoLocals,
   trace |-> trace \o <<Throw(op), Log("Error converting ETH private key:"),
                        Send(500)>>,
   res |-> <<Response(500, ErrorBody(EthErrorText))>>]

\* EthKeyToWallet testing the length of the key as it was sent
EthKeyToWallet_RawLength(q) ==
  LET cleanPrivateKey ==
        IF StartsWith0x(q.privateKey.v) THEN q.privateKey.v
        ELSE <<"0", "x">> \o q.privateKey.v
      t1 == <<Call("ethers.Wallet", Str(cleanPrivateKey))>>
      wallet == Wallet(Str(cleanPrivateKey))
  IN IF ~Truthy(q.privateKey)
     THEN [pc |-> "done", locals |-> NoLocals, trace |-> <<Send(400)>>,
           res |-> <<Response(400, ErrorBody(KeyMissingText))>>]
     ELSE IF q.privateKey.t # "string"
     THEN EthCatch(<<>>, "privateKey.startsWith")
     ELSE IF Len(q.privateKey.v) # 64
     THEN [pc |-> "done", locals |-> NoLocals, trace |-> <<Send(400)>>,
           res |-> <<Response(400, ErrorBody(EthFormatText))>>]
     ELSE IF ~IsValidEthKey(Str(cleanPrivateKey))
     THEN EthCatch(t1, "ethers.Wallet")
     ELSE [pc |-> "done", locals |-> NoLocals,
           trace |-> t1 \o <<Call("ethers.SigningKey.computePublicKey",
                                  Str(cleanPrivateKey)), Send(200)>>,
           res |-> <<Response(200, OkBody(Stringify(
                     [address             |-> Property(wallet, "address"),
                      privateKey          |-> <<cleanPrivateKey>>,
                      publicKey           |-> Property(wallet, "publicKey"),
                      compressedPublicKey |-> <<computePublicKey(cleanPrivateKey)>>])))>>]

\* EthKeyToWallet echoing the key as it was sent
EthKeyToWallet_EchoInput(q) ==
  LET cleanPrivateKey ==
        IF StartsWith0x(q.privateKey.v) THEN q.privateKey.v
        ELSE <<"0", "x">> \o q.privateKey.v
      t1 == <<Call("ethers.Wallet", Str(cleanPrivateKey))>>
      wallet == Wallet(Str(cleanPrivateKey))
  IN IF ~Truthy(q.privateKey)
     THEN [pc |-> "done", locals |-> NoLocals, trace |-> <<Send(400)>>,
           res |-> <<Response(400, ErrorBody(KeyMissingText))>>]
     ELSE IF q.privateKey.t # "string"
     THEN EthCatch(<<>>, "privateKey.startsWith")
     ELSE IF Len(cleanPrivateKey) # 66
     THEN [pc |-> "done", locals |-> NoLocals, trace |-> <<Send(400)>>,
           res |-> <<Response(400, ErrorBody(EthFormatText))>>]
     ELSE IF ~IsValidEthKey(Str(cleanPrivateKey))
     THEN EthCatch(t1, "ethers.Wallet")
     ELSE [pc |-> "done", locals |-> NoLocals,
           trace |-> t1 \o <<Call("ethers.SigningKey.computePublicKey",
                                  Str(cleanPrivateKey)), Send(200)>>,
           res |-> <<Response(200, OkBody(Stringify(
                     [address             |-> Property(wallet, "address"),
                      privateKey          |-> <<q.privateKey.v>>,
                      publicKey           |-> Property(wallet, "publicKey"),
                      compressedPublicKey |-> <<computePublicKey(cleanPrivateKey)>>])))>>]

EthKeyToWallet(q) ==
  LET cleanPrivateKey ==
        IF StartsWith0x(q.privateKey.v) THEN q.privateKey.v
        ELSE <<"0", "x">> \o q.privateKey.v
      t1 == <<Call("ethers.Wallet", Str(cleanPrivateKey))>>
      wallet == Wallet(Str(cleanPrivateKey))
  IN IF ~Truthy(q.privateKey)
     THEN [pc |-> "done", locals |-> NoLocals, trace |-> <<Send(400)>>,
           res |-> <<Response(400, ErrorBody(KeyMissingText))>>]
     ELSE IF q.privateKey.t # "string"
     THEN EthCatch(<<>>, "privateKey.startsWith")
     ELSE IF Len(cleanPrivateKey) # 66
     THEN [pc |-> "done", locals |-> NoLocals, trace |-> <<Send(400)>>,
           res |-> <<Response(400, ErrorBody(EthFormatText))>>]
     ELSE IF ~IsValidEthKey(Str(cleanPrivateKey))
     THEN EthCatch(t1, "ethers.Wallet")
     ELSE [pc |-> "done", locals |-> NoLocals,
           trace |-> t1 \o <<Call("ethers.SigningKey.computePublicKey",
                                  Str(cleanPrivateKey)), Send(200)>>,
           res |-> <<Response(200, OkBody(Stringify(
                     [address             |-> Property(wallet, "address"),
                      privateKey          |-> <<cleanPrivateKey>>,
                      publicKey           |-> Property(wallet, "publicKey"),
                      compressedPublicKey |-> <<computePublicKey(cleanPrivateKey)>>])))>>]


(***************************************************************************)
(* Inputs                                                                  *)
(***************************************************************************)
Key1 == Rep("0", 63) \o <<"1">>

Key2 == Rep("0", 62) \o <<"a", "2">>

Msg1 == <<"h", "i">>

Msg2 == <<"y", "o">>

\* keys new ethers.Wallet accepts
ValidEthKeys == { Str(Key1), Str(<<"0", "x">> \o Key1), Str(Key2) }

\* absent, empty, out of range, not hex, too long, repeated parameter
BadEthKeys ==
  { Undefined, Str(<<>>), Str(Rep("f", 64)), Str(Rep("z", 64)),
    Str(Key1 \o <<"0">>), Arr(<<Key1, Key2>>) }

EthKeys == ValidEthKeys \cup BadEthKeys

\* the keys sent to /eth-key-to-wallet: those above, and prefixed keys that
\* are out of range or one digit short
WalletKeys ==
  EthKeys \cup { Str(<<"0", "x">> \o Rep("f", 64)), Str(<<"0", "x">> \o Rep("1", 63)) }

GoodMessages == { Str(Msg1), Str(Msg2) }

BadMessages == { Undefined, Str(<<>>), Arr(<<Msg1, Msg2>>) }

Messages == GoodMessages \cup BadMessages

GoodSignatures == { Str(signMessage(k.v, m.v)) : k \in ValidEthKeys, m \in GoodMessages }

BadSignatures ==
  { Undefined, Str(<<>>), Str(<<"0", "x", "z", "z">>),
    Arr(<<signMessage(Key1, Msg1), signMessage(Key2, Msg1)>>) }

Signatures == GoodSignatures \cup BadSignatures

SignQuery(k, m) == [NoQuery EXCEPT !.key = k, !.message = m]

SignQueries ==
  { SignQuery(k, m) : k \in ValidEthKeys, m \in Messages }
  \cup { SignQuery(k, m) : k \in BadEthKeys, m \in {Str(Msg1)} }
  \cup { SignQuery(k, m) : k \in {Undefined, Arr(<<Key1, Key2>>)}, m \in BadMessages }

VerifyQuery(sg, m) == [NoQuery EXCEPT !.signature = sg, !.message = m]

VerifyQueries ==
  { VerifyQuery(sg, m) : sg \in GoodSignatures, m \in Messages }
  \cup { VerifyQuery(sg, m) : sg \in BadSignatures, m \in {Str(Msg1)} }
  \cup { VerifyQuery(sg, m) : sg \in {Undefined}, m \in BadMessages }

SuiKey1 == Rep("0", 62) \o <<"2", "a">>

SuiKey2 == <<"c", "7">> \o Rep("0", 62)

\* secrets new Ed25519Keypair() can draw
SuiSecrets == { BufferFromHex(SuiKey1), BufferFromHex(SuiKey2) }

\* outcomes of new Ed25519Keypair(): a secret, or a failure of the random source
GenSuiEnvs ==
  { [fail |-> FALSE, secret |-> sec] : sec \in SuiSecrets }
  \cup { [fail |-> TRUE, secret |-> <<>>] }

\* well-formed and malformed Ed25519 keys
SuiKeys ==
  { Undefined, Str(<<>>), Str(SuiKey1), Str(<<"0", "x">> \o SuiKey1),
    Str(<<"0", "x">> \o Rep("1", 63)), Str(Rep("z", 64)),
    Str(<<"a", "b", "0", "x">> \o Rep("1", 62)),
    Arr(<<SuiKey1, SuiKey1>>) }
  \cup { Str(PrivateKeyHex(Keypair(sec))) : sec \in SuiSecrets }

KeyQuery(k) == [NoQuery EXCEPT !.privateKey = k]

\* outcomes of the calls that draw randomness
Draws == Mnemonics \cup {"throw"}

GenEthEnvs == [mn1 : Draws, strict : BOOLEAN, mn2 : Draws, rnd : Draws]

(***************************************************************************)
(* The server                                                              *)
(***************************************************************************)
Arrival(ep, q, run) == Request(ep, q, run.pc, run.locals, run.trace, run.res)

\* the requests each route can hand to its handler, with the handler's run
SignArrivals == { Arrival("/sign", q, SignBegin(q)) : q \in SignQueries }

VerifyArrivals == { Arrival("/verify", q, Verify(q)) : q \in VerifyQueries }

GenerateEthArrivals ==
  { Arrival("/generate-eth", NoQuery, GenerateEth(env)) : env \in GenEthEnvs }

GenerateSuiArrivals ==
  { Arrival("/generate-sui", NoQuery, GenerateSui(env)) : env \in GenSuiEnvs }

SuiKeyToAddressArrivals ==
  { Arrival("/sui-key-to-address", KeyQuery(k), SuiKeyToAddress(KeyQuery(k))) :
      k \in SuiKeys }

EthKeyToWalletArrivals ==
  { Arrival("/eth-key-to-wallet", KeyQuery(k), EthKeyToWallet(KeyQuery(k))) :
      k \in WalletKeys }

Init ==
  /\ reqs = <<>>
  /\ serving = TRUE

\* a new request is accepted while the process is listening
Accept == serving /\ Len(reqs) < MaxReq

\* an exception no catch block handled leaves the async handler as an
\* unhandled rejection, which ends the process
Escapes(trace) == Len(trace) > 0 /\ trace[Len(trace)].e = "throw"

\* Handle with the handler's locals kept in module-level variables, which the
\* requests still in flight read as theirs
Handle_SharedLocals(r) ==
  /\ reqs' = Append([i \in 1..Len(reqs) |->
                      IF reqs[i].pc = "await" /\ r.pc = "await"
                      THEN [reqs[i] EXCEPT !.locals = r.locals]
                      ELSE reqs[i]], r)
  /\ serving' = ~Escapes(r.trace)

Handle(r) ==
  /\ reqs' = Append(reqs, r)
  /\ serving' = ~Escapes(r.trace)

SignStart == Accept /\ \E r \in SignArrivals : Handle(r)

\* SignResume continuing with the wallet and the promise of the /sign request
\* that arrived last, as if they were kept in module-level variables
SignResume_SharedWallet ==
  \E i \in 1..Len(reqs) :
    /\ serving
    /\ reqs[i].ep = "/sign"
    /\ reqs[i].pc = "await"
    /\ LET last == CHOOSE j \in 1..Len(reqs) :
                     /\ reqs[j].ep = "/sign" /\ reqs[j].locals # NoLocals
                     /\ \A m \in 1..Len(reqs) :
                          (reqs[m].ep = "/sign" /\ reqs[m].locals # NoLocals) => m <= j
       IN reqs' = [reqs EXCEPT ![i] = Arrival("/sign", reqs[i].query,
                     SignEnd([reqs[i] EXCEPT !.locals = reqs[last].locals]))]
    /\ serving' = ~Escapes(reqs'[i].trace)

SignResume ==
  \E i \in 1..Len(reqs) :
    /\ serving
    /\ reqs[i].ep = "/sign"
    /\ reqs[i].pc = "await"
    /\ reqs' = [reqs EXCEPT ![i] = Arrival("/sign", reqs[i].query, SignEnd(reqs[i]))]
    /\ serving' = ~Escapes(reqs'[i].trace)

VerifyRequest == Accept /\ \E r \in VerifyArrivals : Handle(r)

GenerateEthRequest == Accept /\ \E r \in GenerateEthArrivals : Handle(r)

GenerateSuiRequest == Accept /\ \E r \in GenerateSuiArrivals : Handle(r)

SuiKeyToAddressRequest == Accept /\ \E r \in SuiKeyToAddressArrivals : Handle(r)

EthKeyToWalletRequest == Accept /\ \E r \in EthKeyToWalletArrivals : Handle(r)

Next ==
  \/ SignStart
  \/ SignResume
  \/ VerifyRequest
  \/ GenerateEthRequest
  \/ GenerateSuiRequest
  \/ SuiKeyToAddressRequest
  \/ EthKeyToWalletRequest

Spec == Init /\ [][Next]_vars

\* The key routes alone: /generate-sui, /sui-key-to-address and
\* /eth-key-to-wallet, in runs long enough for a request between two others
AcceptKey == serving /\ Len(reqs) < MaxKeyReq

KeyGenerateSui == AcceptKey /\ \E r \in GenerateSuiArrivals : Handle(r)

\* /sui-key-to-address computing its answer from the key of the request
\* handled before it, when there is one
KeySuiKeyToAddress_SharedKey ==
  /\ AcceptKey
  /\ \E r \in SuiKeyToAddressArrivals :
       Handle(IF reqs = <<>> THEN r
              ELSE Arrival(r.ep, r.query, SuiKeyToAddress(reqs[Len(reqs)].query)))

KeySuiKeyToAddress == AcceptKey /\ \E r \in SuiKeyToAddressArrivals : Handle(r)

KeyEthKeyToWallet == AcceptKey /\ \E r \in EthKeyToWalletArrivals : Handle(r)

NextKeys ==
  \/ KeyGenerateSui
  \/ KeySuiKeyToAddress
  \/ KeyEthKeyToWallet

SpecKeys == Init /\ [][NextKeys]_vars

\* a request as its handler leaves it when nothing else has been handled
Completed(r) == IF r.pc = "await" THEN Arrival(r.ep, r.query, SignEnd(r)) ELSE r

(***************************************************************************)
(* The middleware chain: cors, the body parsers, the six GET routes,       *)
(* express.static and the route of the documentation page                  *)
(***************************************************************************)
Methods == {"GET", "HEAD", "POST", "OPTIONS"}

ApiPaths ==
  {"/sign", "/verify", "/generate-eth", "/generate-sui", "/sui-key-to-address",
   "/eth-key-to-wallet"}

Paths == ApiPaths \cup {"/", "/other"}

\* app.get(path, ...): Express hands a route registered for GET the HEAD
\* requests too
GetRouteHandles(method) == method \in {"GET", "HEAD"}

FullQuery ==
  [key |-> Str(Key1), message |-> Str(Msg1),
   signature |-> Str(signMessage(Key1, Msg1)), privateKey |-> Str(Key1)]

RouteQueries == {NoQuery, FullQuery}

RouteEthEnvs ==
  { [mn1 |-> "throw", strict |-> FALSE, mn2 |-> "throw", rnd |-> "throw"] }
  \cup { env \in GenEthEnvs : env.mn1 # "throw" /\ env.mn2 = env.mn1
                              /\ env.rnd = env.mn1 /\ ~env.strict }

Middleware(name) == Call(name, Undefined)

\* the middleware every request passes first
Before == <<Middleware("cors"), Middleware("express.json"),
            Middleware("express.urlencoded")>>

\* the runs of the handler of an API path, from its entry to its response
HandlerRuns(path, q) ==
  IF path = "/sign" THEN { Completed(Arrival(path, q, SignBegin(q))) }
  ELSE IF path = "/verify" THEN { Arrival(path, q, Verify(q)) }
  ELSE IF path = "/generate-eth"
  THEN { Arrival(path, q, GenerateEth(env)) : env \in RouteEthEnvs }
  ELSE IF path = "/generate-sui"
  THEN { Arrival(path, q, GenerateSui(env)) : env \in GenSuiEnvs }
  ELSE IF path = "/sui-key-to-address" THEN { Arrival(path, q, SuiKeyToAddress(q)) }
  ELSE { Arrival(path, q, EthKeyToWallet(q)) }

Routed(method, path, r) == r @@ [method |-> method, path |-> path]

\* the response to a HEAD request has the status and no body
OnTheWire(method, res) ==
  IF method = "HEAD"
  THEN [n \in 1..Len(res) |-> Response(res[n].status, <<>>)]
  ELSE res

\* a request answered by a layer that is not one of the six handlers
Layer(name, q, trace, status) ==
  Request(name, q, "done", NoLocals, trace \o <<Send(status)>>,
          <<Response(status, <<>>)>>)

\* Dispatch with the six routes registered with app.all
Dispatch_AllMethods(method, path, q, file) ==
  IF method = "OPTIONS"
  THEN { Routed(method, path, Layer("cors", q, <<Middleware("cors")>>, 204)) }
  ELSE IF path \in ApiPaths
  THEN { Routed(method, path,
                [r EXCEPT !.trace = Before \o @, !.res = OnTheWire(method, @)]) :
           r \in HandlerRuns(path, q) }
  ELSE LET t == Before \o <<Middleware("express.static")>>
       IN IF GetRouteHandles(method) /\ file
          THEN { Routed(method, path, Layer("express.static", q, t, 200)) }
          ELSE IF path = "/" /\ GetRouteHandles(method)
          THEN { Routed(method, path, Layer("/", q, t, 200)) }
          ELSE { Routed(method, path, Layer("finalhandler", q, t, 404)) }

\* the way of a request through the chain; file says whether express.static
\* finds a file of the public directory for the path
Dispatch(method, path, q, file) ==
  IF method = "OPTIONS"
  THEN { Routed(method, path, Layer("cors", q, <<Middleware("cors")>>, 204)) }
  ELSE IF path \in ApiPaths /\ GetRouteHandles(method)
  THEN { Routed(method, path,
                [r EXCEPT !.trace = Before \o @, !.res = OnTheWire(method, @)]) :
           r \in HandlerRuns(path, q) }
  ELSE LET t == Before \o <<Middleware("express.static")>>
       IN IF GetRouteHandles(method) /\ file
          THEN { Routed(method, path, Layer("express.static", q, t, 200)) }
          ELSE IF path = "/" /\ GetRouteHandles(method)
          THEN { Routed(method, path, Layer("/", q, t, 200)) }
          ELSE { Routed(method, path, Layer("finalhandler", q, t, 404)) }

RoutedArrivals ==
  UNION { Dispatch(method, path, q, file) :
            method \in Methods, path \in Paths, q \in RouteQueries, file \in BOOLEAN }

AcceptRouted == serving /\ Len(reqs) < MaxRouteReq

RouteRequest == AcceptRouted /\ \E r \in RoutedArrivals : Handle(r)

NextRouting == RouteRequest

SpecRouting == Init /\ [][NextRouting]_vars

(***************************************************************************)
(* The standalone server of main.js: GET /sign alone                       *)
(***************************************************************************)
MainMissingText == "Missing key or message"

MainErrorText == "Invalid key or signing error"

\* err.message of the exception a capability throws
ErrorMessage(op) ==
  IF op = "ethers.Wallet" THEN "invalid private key" ELSE "invalid BytesLike value"

\* MainCatch answering with the fixed text alone
MainCatch_NoDetails(trace, op) ==
  [pc |-> "done", locals |-> NoLocals,
   trace |-> trace \o <<Throw(op), Send(500)>>,
   res |-> <<Response(500, [error |-> MainErrorText])>>]

\* the catch block of main.js
MainCatch(trace, op) ==
  [pc |-> "done", locals |-> NoLocals,
   trace |-> trace \o <<Throw(op), Send(500)>>,
   res |-> <<Response(500, [error |-> MainErrorText, details |-> ErrorMessage(op)])>>]

\* /sign of main.js from its entry to the await of wallet.signMessage
MainSignBegin(q) ==
  IF ~Truthy(q.key) \/ ~Truthy(q.message)
  THEN [pc |-> "done", locals |-> NoLocals, trace |-> <<Send(400)>>,
        res |-> <<Response(400, [error |-> MainMissingText])>>]
  ELSE IF ~IsValidEthKey(q.key)
  THEN MainCatch(<<Call("ethers.Wallet", q.key)>>, "ethers.Wallet")
  ELSE [pc |-> "await",
        locals |-> [wallet |-> Wallet(q.key),
                    promise |-> SignPromise(q.key, q.message)],
        trace |-> <<Call("ethers.Wallet", q.key),
                    Call("wallet.signMessage", q.message)>>,
        res |-> <<>>]

\* /sign of main.js from the await to the response
MainSignEnd(r) ==
  IF r.locals.promise.rejected
  THEN MainCatch(r.trace, "wallet.signMessage")
  ELSE [pc |-> "done", locals |-> r.locals,
        trace |-> r.trace \o <<Send(200)>>,
        res |-> <<Response(200, [address   |-> r.locals.wallet.address,
                                 signature |-> r.locals.promise.value])>>]

MainSignArrivals == { Arrival("/sign", q, MainSignBegin(q)) : q \in SignQueries }

AcceptMain == serving /\ Len(reqs) < MaxMainReq

MainSignStart == AcceptMain /\ \E r \in MainSignArrivals : Handle(r)

MainSignResume ==
  \E i \in 1..Len(reqs) :
    /\ serving
    /\ reqs[i].pc = "await"
    /\ reqs' = [reqs EXCEPT ![i] = Arrival("/sign", reqs[i].query, MainSignEnd(reqs[i]))]
    /\ serving' = ~Escapes(reqs'[i].trace)

NextMain ==
  \/ MainSignStart
  \/ MainSignResume

SpecMain == Init /\ [][NextMain]_vars

(***************************************************************************)
(* Vocabulary of the properties                                            *)
(***************************************************************************)
Ids == 1..Len(reqs)

Done(i) == reqs[i].pc = "done"

Answered(i) == Len(reqs[i].res) >= 1

Status(i) == reqs[i].res[1].status

Body(i) == reqs[i].res[1].body

Ok(i) == Answered(i) /\ Status(i) = 200

\* the positions of the events of a kind in the trace of request i
Events(i, kind) == { n \in 1..Len(reqs[i].trace) : reqs[i].trace[n].e = kind }

Threw(i) == Events(i, "throw") # {}

\* the address of each valid key, as the library derives it
EthAddress == [k \in ValidEthKeys |-> AddressOf(Scalar(k.v))]

\* request j verifies the signature that request i returned, over the
\* message request i signed
VerifiesSignatureOf(j, i) ==
  /\ reqs[j].ep = "/verify"
  /\ Done(j)
  /\ reqs[j].query.signature = Str(Body(i).data.signature)
  /\ reqs[j].query.message = reqs[i].query.message

SignRoundTrip(i) ==
  /\ Ok(i)
  /\ Body(i).data.address = EthAddress[reqs[i].query.key]
  /\ \A j \in Ids :
       VerifiesSignatureOf(j, i) =>
         /\ Ok(j)
         /\ Body(j).data.recoveredAddress = EthAddress[reqs[i].query.key]

\* C1 as stated: for every valid key and EVERY string message, /sign answers
\* 200 with the key's address and a signature that /verify, given the same
\* message, answers with 200 and that address.
C1_AnyString ==
  \A i \in Ids :
    ( /\ reqs[i].ep = "/sign"
      /\ Done(i)
      /\ reqs[i].query.key \in ValidEthKeys
      /\ reqs[i].query.message.t = "string" )
    => SignRoundTrip(i)

\* C1 amended: sign/verify round trip for every valid key and every
\* NON-EMPTY string message: /sign answers 200 with the address of the key,
\* and /verify of the returned signature over the same message answers 200
\* with recoveredAddress equal to that address.
C1_RoundTrip ==
  \A i \in Ids :
    ( /\ reqs[i].ep = "/sign"
      /\ Done(i)
      /\ reqs[i].query.key \in ValidEthKeys
      /\ reqs[i].query.message.t = "string"
      /\ Len(reqs[i].query.message.v) > 0 )
    => SignRoundTrip(i)

C1_Witness ==
  \E i, j \in Ids :
    /\ reqs[i].ep = "/sign"
    /\ Ok(i)
    /\ VerifiesSignatureOf(j, i)
    /\ Ok(j)
    /\ Body(j).data.recoveredAddress = Body(i).data.address

\* the required parameters of each endpoint that validates its query
Required(ep) ==
  IF ep = "/sign" THEN {"key", "message"}
  ELSE IF ep = "/verify" THEN {"signature", "message"}
  ELSE IF ep \in {"/eth-key-to-wallet", "/sui-key-to-address"} THEN {"privateKey"}
  ELSE {}

MissingParameter(i) ==
  \E name \in Required(reqs[i].ep) : reqs[i].query[name] = Undefined

ErrorEnvelope(i, status) ==
  /\ Done(i)
  /\ Len(reqs[i].res) = 1
  /\ Status(i) = status
  /\ DOMAIN Body(i) = {"success", "error"}
  /\ Body(i).success = FALSE
  /\ Body(i).error \in STRING

\* C2: a request to /sign, /verify, /eth-key-to-wallet or /sui-key-to-address
\* in which a required parameter is absent is answered with 400,
\* success:false and a string error, whatever the other parameters are.
C2_MissingParameter ==
  \A i \in Ids : MissingParameter(i) => ErrorEnvelope(i, 400)

\* an absent key next to a message that is not even a string, and an absent
\* message next to a valid key
C2_Witness ==
  /\ \E i \in Ids :
       /\ reqs[i].ep = "/sign"
       /\ reqs[i].query.key = Undefined
       /\ reqs[i].query.message.t = "array"
       /\ ErrorEnvelope(i, 400)
  /\ \E i \in Ids :
       /\ reqs[i].ep = "/sign"
       /\ reqs[i].query.key \in ValidEthKeys
       /\ reqs[i].query.message = Undefined
       /\ ErrorEnvelope(i, 400)

\* in the trace of request i, the events after the first throw are exactly
\* one log entry and then the response
LoggedThenSent(i) ==
  LET t == reqs[i].trace
      n == CHOOSE n \in Events(i, "throw") : \A k \in Events(i, "throw") : n <= k
  IN /\ Len(t) = n + 2
     /\ t[n + 1].e = "log"
     /\ t[n + 2].e = "send"

\* C3: when key and message are present and wallet construction or signing
\* throws, /sign answers 500 with success:false and one fixed error text,
\* and the exception is logged before the response is sent.
C3_SignFailure ==
  \A i \in Ids :
    ( /\ reqs[i].ep = "/sign"
      /\ Truthy(reqs[i].query.key)
      /\ Truthy(reqs[i].query.message)
      /\ Threw(i) )
    => /\ ErrorEnvelope(i, 500)
       /\ Body(i).error = SignErrorText
       /\ LoggedThenSent(i)

\* one request failed in the Wallet constructor, another in signMessage
C3_Witness ==
  \E i, j \in Ids :
    /\ reqs[i].ep = "/sign" /\ reqs[j].ep = "/sign"
    /\ Threw(i) /\ Threw(j)
    /\ reqs[i].trace[Len(reqs[i].trace) - 2].op = "ethers.Wallet"
    /\ reqs[j].trace[Len(reqs[j].trace) - 2].op = "wallet.signMessage"
    /\ Status(i) = 500 /\ Status(j) = 500
    /\ Body(i) = Body(j)

\* C4: every response of /verify is either 200 with isValid true, or 400/500
\* with success false; none carries isValid false.
C4_NoNegativeResult ==
  \A i \in Ids :
    (reqs[i].ep = "/verify" /\ Answered(i)) =>
      \/ /\ Status(i) = 200
         /\ Body(i).success = TRUE
         /\ Body(i).data.isValid = TRUE
      \/ /\ Status(i) \in {400, 500}
         /\ Body(i).success = FALSE
         /\ "data" \notin DOMAIN Body(i)

\* a well-formed signature of Key1 over Msg1, verified against Msg2: the
\* answer is 200, isValid true, with an address that is not Key1's
C4_Witness ==
  \E i \in Ids :
    /\ reqs[i].ep = "/verify"
    /\ reqs[i].query.signature = Str(signMessage(Key1, Msg1))
    /\ reqs[i].query.message = Str(Msg2)
    /\ Ok(i)
    /\ Body(i).data.isValid = TRUE
    /\ Body(i).data.recoveredAddress # EthAddress[Str(Key1)]

\* C5: when signature and message are present and address recovery throws,
\* /verify answers 500 with success:false, the process keeps serving, and
\* every later request has its one complete answer.
C5_RecoveryFailure ==
  \A i \in Ids :
    ( /\ reqs[i].ep = "/verify"
      /\ Truthy(reqs[i].query.signature)
      /\ Truthy(reqs[i].query.message)
      /\ Threw(i) )
    => /\ ErrorEnvelope(i, 500)
       /\ serving
       /\ \A j \in Ids : (j > i /\ Done(j)) => Len(reqs[j].res) = 1

\* a malformed signature answered with 500, followed by a request answered
\* with 200
C5_Witness ==
  \E i, j \in Ids :
    /\ i < j
    /\ reqs[i].ep = "/verify"
    /\ reqs[i].query.signature = Str(<<"0", "x", "z", "z">>)
    /\ Threw(i)
    /\ Status(i) = 500
    /\ Ok(j)

\* the shape of a key: 64 hex digits, for secp256k1 after the "0x" prefix
\* (which the handlers and the library add when it is absent)
Secp256k1Shape(p) ==
  /\ p.t = "string"
  /\ Len(KeyDigits(p.v)) = 64
  /\ AllHex(KeyDigits(p.v))

Ed25519Shape(p) ==
  /\ p.t = "string"
  /\ Len(p.v) = 64
  /\ AllHex(p.v)

\* C6 as stated: no crypto capability is invoked with a key whose length or
\* character set does not match its scheme.
C6_ShapeBeforeCall ==
  \A i \in Ids : \A n \in Events(i, "call") :
    LET ev == reqs[i].trace[n]
    IN /\ ev.op \in {"ethers.Wallet", "ethers.SigningKey.computePublicKey"}
            => Secp256k1Shape(ev.arg)
       /\ ev.op = "Ed25519Keypair.fromSecretKey" => Ed25519Shape(ev.arg)

\* a required parameter that is absent, not a single string, or a key of the
\* wrong length or character set
Malformed(i) ==
  \E name \in Required(reqs[i].ep) :
    LET p == reqs[i].query[name]
    IN \/ p.t # "string"
       \/ /\ name = "key" \/ (name = "privateKey" /\ reqs[i].ep = "/eth-key-to-wallet")
          /\ ~Secp256k1Shape(p)
       \/ /\ name = "privateKey" /\ reqs[i].ep = "/sui-key-to-address"
          /\ ~Ed25519Shape(p) /\ ~Ed25519Shape(Str(KeyDigits(p.v)))

CapabilityThrew(i) ==
  \E n \in Events(i, "throw") :
    reqs[i].trace[n].op \notin {"privateKey.replace", "privateKey.startsWith"}

\* C7 as stated: missing or malformed input is always answered with 400, and
\* 500 is returned only when a capability call fails.
C7_ErrorTaxonomy ==
  \A i \in Ids :
    (Done(i) /\ Required(reqs[i].ep) # {}) =>
      /\ Malformed(i) => Status(i) = 400
      /\ Status(i) = 500 => CapabilityThrew(i)

\* the primary attempt of /generate-eth threw: the first catch block ran
PrimaryThrew(i) ==
  /\ reqs[i].ep = "/generate-eth"
  /\ \E n \in Events(i, "log") : reqs[i].trace[n].op = "Error generating ETH wallet:"

FirstThrow(i) ==
  CHOOSE n \in Events(i, "throw") : \A k \in Events(i, "throw") : n <= k

TraceOps(i, from) ==
  [n \in 1..(Len(reqs[i].trace) - from + 1) |-> reqs[i].trace[n + from - 1].op]

\* C8 as stated: whenever the primary attempt throws, the answer is 200 with
\* a random wallet, a new mnemonic and derivationPath "random".
C8_AlwaysRandomWallet ==
  \A i \in Ids :
    PrimaryThrew(i) =>
      /\ Ok(i)
      /\ Body(i).data.derivationPath = "random"
      /\ reqs[i].locals.wallet.origin = "createRandom"

\* C8 amended: when the primary attempt throws, the handler logs the error,
\* generates a new mnemonic and then creates a random wallet; if neither call
\* throws it answers 200 with that wallet's address/privateKey/publicKey, the
\* new mnemonic and derivationPath "random", the wallet being the result of
\* createRandom and the mnemonic having been passed to no call; if one of
\* them throws it answers 500.
C8_Fallback ==
  \A i \in Ids :
    PrimaryThrew(i) =>
      LET n == FirstThrow(i)
      IN /\ reqs[i].trace[n + 1] = Log("Error generating ETH wallet:")
         /\ IF Events(i, "throw") = {n}
            THEN /\ TraceOps(i, n + 2) =
                      <<"bip39.generateMnemonic", "ethers.Wallet.createRandom", "res.json">>
                 /\ Ok(i)
                 /\ Body(i).success = TRUE
                 /\ Body(i).data =
                      [address        |-> reqs[i].locals.wallet.address,
                       privateKey     |-> reqs[i].locals.wallet.privateKey,
                       mnemonic       |-> reqs[i].locals.mnemonic,
                       publicKey      |-> reqs[i].locals.wallet.publicKey,
                       derivationPath |-> "random"]
                 /\ reqs[i].locals.mnemonic \in Mnemonics
                 /\ reqs[i].locals.wallet.origin = "createRandom"
            ELSE ErrorEnvelope(i, 500)

\* a fallback answer whose private key is not the key of its mnemonic
C8_Witness ==
  \E i \in Ids :
    /\ PrimaryThrew(i)
    /\ Ok(i)
    /\ Body(i).data.derivationPath = "random"
    /\ Body(i).data.privateKey # fromMnemonic(Body(i).data.mnemonic).privateKey
    /\ Body(i).data.privateKey #
         DeriveChildren(RootNode(Body(i).data.mnemonic), StdPath).privateKey

\* C9 as stated: the path is derived on the root node (depth 0) built from
\* the mnemonic, and a response with the standard derivationPath carries the
\* key of that path below the root of its mnemonic.
C9_DerivedFromRoot ==
  \A i \in Ids :
    reqs[i].ep = "/generate-eth" =>
      /\ \A n \in Events(i, "call") :
           reqs[i].trace[n].op = "hdWallet.derivePath"
             => reqs[i].trace[n].arg.depth = 0
      /\ (Ok(i) /\ Body(i).data.derivationPath = StdPathText) =>
           Body(i).data.privateKey =
             DeriveChildren(RootNode(Body(i).data.mnemonic), StdPath).privateKey

LogTexts(i) ==
  LET t == reqs[i].trace
      logs == Events(i, "log")
      \* the position of the k-th log entry
      nth(k) == CHOOSE n \in logs : Cardinality({m \in logs : m <= n}) = k
  IN [k \in 1..Cardinality(logs) |-> t[nth(k)].op]

\* C11: /generate-eth answers 500 with success:false only after both the
\* primary and the fallback attempt have thrown and both errors have been
\* logged, the primary error first; if either attempt completes the answer
\* is 200.
C11_TotalFailure ==
  \A i \in Ids :
    reqs[i].ep = "/generate-eth" =>
      /\ Done(i) /\ Len(reqs[i].res) = 1
      /\ Status(i) \in {200, 500}
      /\ Status(i) = 500 <=> Cardinality(Events(i, "throw")) = 2
      /\ Status(i) = 500 =>
           /\ ErrorEnvelope(i, 500)
           /\ LogTexts(i) = <<"Error generating ETH wallet:",
                              "Error in fallback wallet generation:">>
           /\ \A n \in Events(i, "throw") : reqs[i].trace[n + 1].e = "log"
           /\ \A n \in Events(i, "log") : \A m \in Events(i, "send") : n < m
      /\ Status(i) = 200 => Body(i).success = TRUE

\* a total failure, and a request whose primary attempt threw and whose
\* fallback completed
C11_Witness ==
  \E i, j \in Ids :
    /\ reqs[i].ep = "/generate-eth" /\ reqs[j].ep = "/generate-eth"
    /\ Status(i) = 500
    /\ Cardinality(Events(i, "throw")) = 2
    /\ Status(j) = 200
    /\ Cardinality(Events(j, "throw")) = 1

\* request j converts the private key that /generate-sui request i returned
ConvertsKeyOf(j, i) ==
  /\ reqs[i].ep = "/generate-sui" /\ Ok(i)
  /\ reqs[j].ep = "/sui-key-to-address"
  /\ reqs[j].query.privateKey = Str(Body(i).data.privateKey)

\* C12 as stated: the privateKey /generate-sui returns is the hex of the raw
\* 32-byte secret of the returned keypair, so /sui-key-to-address called with
\* it answers 200 with the same address and publicKey.
C12_KeyRoundTrip ==
  \A i \in Ids :
    (reqs[i].ep = "/generate-sui" /\ Ok(i)) =>
      /\ Body(i).data.privateKey = ToHex(reqs[i].locals.keypair.secret)
      /\ \A j \in Ids :
           ConvertsKeyOf(j, i) =>
             /\ Ok(j)
             /\ Body(j).data.address = Body(i).data.address
             /\ Body(j).data.publicKey = Body(i).data.publicKey

LowerHex(text) == \A n \in 1..Len(text) : \E k \in 1..16 : HexDigits[k] = text[n]

\* C13: a 200 answer of /generate-sui carries a privateKey of exactly 64
\* characters of 0-9a-f, keyType "Ed25519" and data with exactly the fields
\* address, privateKey, publicKey and keyType; when a capability throws the
\* answer is 500 with success:false.
C13_GenerateSuiFormat ==
  \A i \in Ids :
    reqs[i].ep = "/generate-sui" =>
      /\ Done(i) /\ Len(reqs[i].res) = 1
      /\ Status(i) \in {200, 500}
      /\ Status(i) = 500 <=> Threw(i)
      /\ Status(i) = 500 => ErrorEnvelope(i, 500)
      /\ Status(i) = 200 =>
           /\ DOMAIN Body(i) = {"success", "data"}
           /\ Body(i).success = TRUE
           /\ DOMAIN Body(i).data = {"address", "privateKey", "publicKey", "keyType"}
           /\ Len(Body(i).data.privateKey) = 64
           /\ LowerHex(Body(i).data.privateKey)
           /\ Body(i).data.keyType = "Ed25519"

\* a generated wallet and a failed generation
C13_Witness ==
  \E i, j \in Ids :
    /\ reqs[i].ep = "/generate-sui" /\ Ok(i)
    /\ Len(Body(i).data.privateKey) = 64
    /\ reqs[j].ep = "/generate-sui" /\ Threw(j) /\ Status(j) = 500

\* the key /eth-key-to-wallet works with: the input when it starts with "0x",
\* otherwise "0x" followed by the input
Normalized(text) == IF StartsWith0x(text) THEN text ELSE <<"0", "x">> \o text

CallsOf(i, op) == { n \in Events(i, "call") : reqs[i].trace[n].op = op }

\* C14: /eth-key-to-wallet answers 400 exactly when the normalized key does
\* not have 66 characters, and constructs no wallet then; 65 hex characters
\* without a prefix are answered with 400.
C14_NormalizedLength ==
  \A i \in Ids :
    (reqs[i].ep = "/eth-key-to-wallet" /\ reqs[i].query.privateKey.t = "string") =>
      /\ Done(i) /\ Len(reqs[i].res) = 1
      /\ Status(i) = 400 <=> Len(Normalized(reqs[i].query.privateKey.v)) # 66
      /\ Status(i) = 400 =>
           /\ ErrorEnvelope(i, 400)
           /\ CallsOf(i, "ethers.Wallet") = {}

\* 65 hex characters without a prefix rejected with no wallet constructed,
\* and a prefixed key of 66 characters accepted
C14_Witness ==
  \E i, k \in Ids :
    /\ reqs[i].ep = "/eth-key-to-wallet"
    /\ reqs[i].query.privateKey = Str(Key1 \o <<"0">>)
    /\ Status(i) = 400 /\ Body(i).error = EthFormatText
    /\ CallsOf(i, "ethers.Wallet") = {}
    /\ reqs[k].ep = "/eth-key-to-wallet"
    /\ reqs[k].query.privateKey = Str(<<"0", "x">> \o Key1)
    /\ Status(k) = 200

\* requests i and j carry the same 64 hex characters, j with the prefix "0x"
PrefixPair(i, j) ==
  /\ reqs[i].ep = "/eth-key-to-wallet" /\ reqs[j].ep = "/eth-key-to-wallet"
  /\ Ed25519Shape(reqs[i].query.privateKey)
  /\ reqs[j].query.privateKey = Str(<<"0", "x">> \o reqs[i].query.privateKey.v)

\* C15: /eth-key-to-wallet gives 64 hex characters h and "0x" followed by h
\* the same status and the same data, and data.privateKey is "0x" followed by
\* h in both answers.
C15_PrefixInsensitive ==
  \A i, j \in Ids :
    PrefixPair(i, j) =>
      /\ Status(i) = Status(j)
      /\ Ok(i) =>
           /\ Body(i).data = Body(j).data
           /\ Body(i).data.privateKey = <<"0", "x">> \o reqs[i].query.privateKey.v
           /\ Body(j).data.privateKey = <<"0", "x">> \o reqs[i].query.privateKey.v

\* a key sent without and with the prefix, both answered with a wallet
C15_Witness ==
  \E i, j \in Ids : PrefixPair(i, j) /\ Ok(i) /\ Ok(j)

\* a key without its leading "0x", when it has one
WithoutPrefix(text) == IF StartsWith0x(text) THEN SubSeq(text, 3, Len(text)) ELSE text

SuiKeyGiven(i) ==
  /\ reqs[i].ep = "/sui-key-to-address"
  /\ reqs[i].query.privateKey.t = "string"
  /\ Truthy(reqs[i].query.privateKey)

\* C16 as stated: with privateKey present, /sui-key-to-address answers 400
\* whenever the key without a leading "0x" is not exactly 64 hex characters,
\* and invokes no keypair construction then.
C16_StrippedLength ==
  \A i \in Ids :
    (/\ SuiKeyGiven(i)
     /\ ~Ed25519Shape(Str(WithoutPrefix(reqs[i].query.privateKey.v)))) =>
      /\ Status(i) = 400
      /\ CallsOf(i, "Ed25519Keypair.fromSecretKey") = {}

\* C17 as stated: /sui-key-to-address removes nothing but a "0x" at position
\* 0 before the length check and in the key it echoes, so an input whose
\* length without a leading "0x" is not 64 is answered with 400.
C17_OnlyLeadingPrefix ==
  \A i \in Ids :
    SuiKeyGiven(i) =>
      /\ Len(WithoutPrefix(reqs[i].query.privateKey.v)) # 64 => Status(i) = 400
      /\ Ok(i) => Body(i).data.privateKey = WithoutPrefix(reqs[i].query.privateKey.v)

\* requests i and j send the same key of 64 hex characters to
\* /sui-key-to-address
SameSuiKey(i, j) ==
  /\ reqs[i].ep = "/sui-key-to-address" /\ reqs[j].ep = "/sui-key-to-address"
  /\ Ed25519Shape(reqs[i].query.privateKey)
  /\ reqs[j].query.privateKey = reqs[i].query.privateKey

SuccessShape(ep) ==
  IF ep = "/sign" THEN {"address", "message", "signature"}
  ELSE IF ep = "/verify" THEN {"recoveredAddress", "message", "isValid"}
  ELSE IF ep = "/generate-eth"
  THEN {"address", "privateKey", "mnemonic", "publicKey", "derivationPath"}
  ELSE IF ep = "/eth-key-to-wallet"
  THEN {"address", "privateKey", "publicKey", "compressedPublicKey"}
  ELSE {"address", "privateKey", "publicKey", "keyType"}

\* C19 as stated: every response of the six endpoints is either status 200
\* with success:true and data holding all fields of the endpoint's success
\* shape, or status 400 or 500 with success:false and a string error; no
\* response mixes the two.
C19_UniformEnvelope ==
  \A i \in Ids : \A n \in 1..Len(reqs[i].res) :
    LET status == reqs[i].res[n].status
        body == reqs[i].res[n].body
    IN \/ /\ status = 200
          /\ DOMAIN body = {"success", "data"}
          /\ body.success = TRUE
          /\ DOMAIN body.data = SuccessShape(reqs[i].ep)
       \/ /\ status \in {400, 500}
          /\ DOMAIN body = {"success", "error"}
          /\ body.success = FALSE
          /\ body.error \in STRING

\* a log entry of request i precedes each of its sends
LoggedBeforeSend(i) ==
  \A m \in Events(i, "send") : \E n \in Events(i, "log") : n < m

Failed(i) == Answered(i) /\ Body(i).success = FALSE

\* C20 as stated: every response with success:false, with status 400 as well
\* as with status 500, is preceded within its request by a log entry.
C20_EveryErrorLogged ==
  \A i \in Ids : Failed(i) => LoggedBeforeSend(i)

\* C20, amended: every response with status 500 is preceded within its
\* request by a log entry for the exception that was caught; a response with
\* status 400 is sent with no log entry.
C20_FailuresLogged ==
  \A i \in Ids :
    Failed(i) =>
      /\ Status(i) \in {400, 500}
      /\ Status(i) = 500 =>
           /\ LoggedBeforeSend(i)
           /\ \A n \in Events(i, "log") : n > 1 /\ reqs[i].trace[n - 1].e = "throw"
      /\ Status(i) = 400 => Events(i, "log") = {}

\* a logged 500 and a 400 that wrote no log entry
C20_Witness ==
  \E i, j \in Ids :
    /\ Failed(i) /\ Status(i) = 500 /\ Events(i, "log") # {}
    /\ Failed(j) /\ Status(j) = 400 /\ Events(j, "log") = {}

SignAnswers == { Completed(r) : r \in SignArrivals }

FirstAnswers(ep) ==
  IF ep = "/sign" THEN SignAnswers
  ELSE IF ep = "/verify" THEN VerifyArrivals
  ELSE IF ep = "/generate-eth" THEN GenerateEthArrivals
  ELSE IF ep = "/generate-sui" THEN GenerateSuiArrivals
  ELSE IF ep = "/sui-key-to-address" THEN SuiKeyToAddressArrivals
  ELSE EthKeyToWalletArrivals

\* C21: after any sequence of requests, those answered with 400 or 500 and
\* those whose capability calls threw included, the server is still serving,
\* no exception has escaped a handler, and every request handled is answered
\* as it would be if it were the first.
C21_NoFatalError ==
  /\ serving
  /\ \A i \in Ids :
       /\ ~Escapes(reqs[i].trace)
       /\ Done(i) =>
            /\ Len(reqs[i].res) = 1
            /\ \E r \in FirstAnswers(reqs[i].ep) : r = reqs[i]

\* a request whose capability call threw, answered 500, followed by a
\* well-formed request that is answered 200
C21_Witness ==
  /\ Len(reqs) = 2
  /\ serving
  /\ Threw(1) /\ Status(1) = 500
  /\ Ok(2) /\ ~Threw(2)

\* what the handler of a route gives a request on a server that has handled
\* nothing
FirstArrivals(ep) ==
  IF ep = "/sign" THEN SignArrivals ELSE FirstAnswers(ep)

\* C22: no handler writes a value that outlives its request: a step of a
\* handler changes nothing but its own request, so the serving state and
\* every other request, finished or in flight, are as they were, and a new
\* request is handled as on a server that has handled nothing.
C22_Stateless ==
  [][/\ serving' = serving
     /\ Len(reqs') >= Len(reqs)
     /\ \A i \in 1..Len(reqs) :
          \/ reqs'[i] = reqs[i]
          \/ /\ reqs[i].pc = "await"
             /\ reqs'[i] = Completed(reqs[i])
             /\ \A j \in 1..Len(reqs) : j # i => reqs'[j] = reqs[j]
     /\ Len(reqs') > Len(reqs) =>
          /\ Len(reqs') = Len(reqs) + 1
          /\ \A i \in 1..Len(reqs) : reqs'[i] = reqs[i]
          /\ \E r \in FirstArrivals(reqs'[Len(reqs')].ep) : r = reqs'[Len(reqs')]
    ]_vars

\* a /sign request in flight while a second /sign request has been handled
\* up to its await, each with the wallet of its own key
C22_Witness ==
  /\ Len(reqs) = 2
  /\ reqs[1].pc = "await" /\ reqs[2].pc = "await"
  /\ reqs[1].query.key # reqs[2].query.key
  /\ reqs[1].locals.address # reqs[2].locals.address

\* request i is where the /sign handler leaves a request with its query when
\* no other request is being handled: at the await, or answered
AloneInSign(i) ==
  \E r \in SignArrivals :
    /\ r.query = reqs[i].query
    /\ \/ reqs[i] = r
       \/ reqs[i] = Completed(r)

InFlight(i) == reqs[i].pc = "await"

\* C23: when requests are in flight together and their handlers interleave
\* at the await of /sign, each request keeps the wallet of its own key and
\* each /sign response carries the address, message and signature of its own
\* request's key and message.
C23_Isolation ==
  \A i \in Ids :
    reqs[i].ep = "/sign" =>
      /\ AloneInSign(i)
      /\ Ok(i) =>
           /\ Body(i).data.message = reqs[i].query.message
           /\ Body(i).data.address = reqs[i].locals.address
           /\ \A j \in Ids :
                (reqs[j].ep = "/sign" /\ InFlight(j)
                 /\ reqs[j].query.key = reqs[i].query.key) =>
                  reqs[j].locals.address = Body(i).data.address

\* a /sign request still at its await while a /sign request that arrived
\* after it, with another key, has been answered with another address
C23_Witness ==
  /\ Len(reqs) = 2
  /\ reqs[1].ep = "/sign" /\ InFlight(1)
  /\ reqs[2].ep = "/sign" /\ Ok(2)
  /\ reqs[1].query.key # reqs[2].query.key
  /\ Body(2).data.address # reqs[1].locals.address

\* request i goes to /sign or /verify with a string as message and with its
\* other parameter present
MessageGiven(i) ==
  /\ reqs[i].query.message.t = "string"
  /\ \/ reqs[i].ep = "/sign" /\ Truthy(reqs[i].query.key)
     \/ reqs[i].ep = "/verify" /\ Truthy(reqs[i].query.signature)

\* the message of request i reached the capability that signs or recovers
MessageReached(i) ==
  \/ reqs[i].ep = "/verify" /\ CallsOf(i, "ethers.verifyMessage") # {}
  \/ /\ reqs[i].ep = "/sign"
     /\ \E n \in CallsOf(i, "wallet.signMessage") :
          reqs[i].trace[n].arg = reqs[i].query.message

\* C24 as stated: /sign and /verify reject no request because of its
\* message: every message string, the empty string included, passes
\* validation and reaches the sign or recover capability.
C24_AnyMessage ==
  \A i \in Ids :
    MessageGiven(i) =>
      /\ Answered(i) => Status(i) # 400
      /\ (reqs[i].ep = "/verify" \/ reqs[i].query.key \in ValidEthKeys) =>
           MessageReached(i)

\* C24, amended: every non-empty message string passes validation and
\* reaches the sign or recover capability; the empty string is rejected with
\* 400 before any capability is called.
C24_NonEmptyMessage ==
  \A i \in Ids :
    MessageGiven(i) =>
      IF Len(reqs[i].query.message.v) > 0
      THEN /\ Answered(i) => Status(i) # 400
           /\ (reqs[i].ep = "/verify" \/ reqs[i].query.key \in ValidEthKeys) =>
                MessageReached(i)
      ELSE /\ ErrorEnvelope(i, 400)
           /\ Events(i, "call") = {}

\* a /verify request with an empty message rejected, and one with a message
\* that reached ethers.verifyMessage
C24_Witness ==
  \E i, j \in Ids :
    /\ reqs[i].ep = "/verify" /\ MessageGiven(i)
    /\ reqs[i].query.message = Str(<<>>) /\ Status(i) = 400
    /\ reqs[j].ep = "/verify" /\ MessageGiven(j)
    /\ Len(reqs[j].query.message.v) > 0 /\ MessageReached(j) /\ Ok(j)

\* request i was served by one of the six handlers
HandlerInvoked(i) == reqs[i].ep \in ApiPaths

\* the calls of request i that are not calls of a middleware
CapabilityCalls(i) ==
  { n \in Events(i, "call") :
      reqs[i].trace[n].op \notin {"cors", "express.json", "express.urlencoded",
                                  "express.static"} }

ReachedStatic(i) == CallsOf(i, "express.static") # {}

Unregistered(path) == path \notin ApiPaths \cup {"/"}

Caught(i) == reqs[i].trace[FirstThrow(i)].op

C27_OneResponse ==
  \A i \in Ids :
    /\ Cardinality(Events(i, "send")) = Len(reqs[i].res)
    /\ reqs[i].pc \in {"done", "await"}
    /\ Done(i) =>
         /\ Len(reqs[i].res) = 1
         /\ reqs[i].trace[Len(reqs[i].trace)].e = "send"
         /\ reqs[i].trace[Len(reqs[i].trace)].status = Status(i)
    /\ InFlight(i) =>
         /\ reqs[i].ep = "/sign"
         /\ reqs[i].res = <<>>

\* a /generate-eth request answered once on its fallback path and one
\* answered once on its total-failure path
C27_Witness ==
  \E i, j \in Ids :
    /\ reqs[i].ep = "/generate-eth" /\ reqs[j].ep = "/generate-eth"
    /\ Cardinality(Events(i, "throw")) = 1 /\ Status(i) = 200
    /\ Cardinality(Events(i, "send")) = 1 /\ Len(reqs[i].res) = 1
    /\ Cardinality(Events(j, "throw")) = 2 /\ Status(j) = 500
    /\ Cardinality(Events(j, "send")) = 1 /\ Len(reqs[j].res) = 1

\* C28: in /sign, /verify, /eth-key-to-wallet and /sui-key-to-address every
\* validation check runs before the first capability call: a request
\* answered with 400 has called no capability, caught no exception and
\* written no log line.
C28_ValidationFirst ==
  \A i \in Ids :
    (Answered(i) /\ Status(i) = 400) =>
      /\ reqs[i].ep \in {"/sign", "/verify", "/eth-key-to-wallet", "/sui-key-to-address"}
      /\ Events(i, "call") = {}
      /\ Events(i, "throw") = {}
      /\ Events(i, "log") = {}
      /\ reqs[i].trace = <<Send(400)>>

\* a key of the wrong length rejected by /sui-key-to-address and a missing
\* parameter rejected by /sign, neither with a capability call
C28_Witness ==
  \E i, j \in Ids :
    /\ reqs[i].ep = "/sui-key-to-address"
    /\ Truthy(reqs[i].query.privateKey)
    /\ Status(i) = 400 /\ Body(i).error = SuiLengthText
    /\ Events(i, "call") = {}
    /\ reqs[j].ep = "/sign"
    /\ Status(j) = 400 /\ Events(j, "call") = {}

\* the signature of each message under each valid key, as the library
\* computes it
EthSignature ==
  [k \in ValidEthKeys |-> [m \in GoodMessages |-> signMessage(k.v, m.v)]]

\* C29: in every 200 response of /sign, data.message is the message
\* parameter of the request unchanged, and data.address and data.signature
\* both come from the one wallet built from the key parameter of that
\* request: the address is that wallet's address and the signature is that
\* wallet's signature of that message.
C29_SignCoherence ==
  \A i \in Ids :
    (reqs[i].ep = "/sign" /\ Ok(i)) =>
      /\ reqs[i].query.key \in ValidEthKeys
      /\ reqs[i].query.message \in GoodMessages
      /\ DOMAIN Body(i).data = {"address", "message", "signature"}
      /\ Body(i).data.message = reqs[i].query.message
      /\ Body(i).data.address = EthAddress[reqs[i].query.key]
      /\ Body(i).data.signature = EthSignature[reqs[i].query.key][reqs[i].query.message]
      /\ Cardinality(CallsOf(i, "ethers.Wallet")) = 1
      /\ \A n \in CallsOf(i, "ethers.Wallet") : reqs[i].trace[n].arg = reqs[i].query.key
      /\ reqs[i].locals.wallet.address = Body(i).data.address

\* two answers of /sign for different keys and the same message, with
\* different addresses and different signatures
C29_Witness ==
  \E i, j \in Ids :
    /\ reqs[i].ep = "/sign" /\ Ok(i)
    /\ reqs[j].ep = "/sign" /\ Ok(j)
    /\ reqs[i].query.message = reqs[j].query.message
    /\ Body(i).data.address # Body(j).data.address
    /\ Body(i).data.signature # Body(j).data.signature
    /\ Body(i).data.message = Body(j).data.message

====
